---- MODULE Spec2Model ----
(***************************************************************************)
(* The iterative solver of the predictive-coding trainer:                  *)
(*   examples/pc_decoder/pc_decoder/training.py  (train_model,             *)
(*       train_on_batch, _build_loop_body)                                 *)
(*   examples/workshop/SkipErr/cifar10/skip_error.py (run_experiment)      *)
(* One run is one of the two programs (train_model or run_experiment).     *)
(* The numerical content of the model is abstracted to the total energy it *)
(* yields: every optimizer application may move the energy to any value,   *)
(* finite or not. A parameter leaf is abstracted to the batch that          *)
(* initialised it and the number of optimizer updates it received since.   *)
(* Masks and the masked optimizer, which the programs only call, are       *)
(* studied on their own under OptimSpec.                                   *)
(***************************************************************************)
EXTENDS Integers, Sequences, FiniteSets, TLC

VARIABLES
    program,      \* which entry point runs: "train_model" | "run_experiment"
                  \* ("optim" under OptimSpec)
    params,       \* the hyperparameters (Params / keyword arguments); never change
    main_pc,      \* position of the entry point
    batch_n,      \* number of train_on_batch calls started so far
    pc,           \* position inside train_on_batch: "idle" | "t_loop" | "w_loop" | "done"
    state,        \* the _LoopState threaded through the two while_loops
    energy,       \* total energy of the model at its current parameters
    optim_calls,  \* per loop step of the current batch, the optimizers applied
    result,       \* the TrainOnBatchResult handed to the caller (NoResult if none)
    model,        \* PCDecoder: activity of every pc node, weight of every layer,
                  \* and saved_pc_states
    optim_x_state, \* auxiliary state of the activity optimizer: the number of
                  \* steps accumulated in it since it was last initialised
    epoch,        \* run_experiment: the epochs completed
    test_acc,     \* run_experiment: the list test_acc
    retval,       \* run_experiment: the value returned (NoReturn before)
    optim,        \* the mask builder or masked optimizer under study (OptimSpec)
    skip_error,   \* train_on_batch of skip_error.py: the state of optim_h, the
                  \* inference steps done, the batch size and the scale_by of
                  \* the weight step
    scan,         \* run_on_batch of main.py: the steps of the scan done, the
                  \* carried state and model, and the stacked outputs
    experiment,   \* run_training_experiment: its flags, the results directory
                  \* and its backup, whether the model was constructed
    metrics,      \* train_model: test_mses, best_test_mse and the epoch whose
                  \* results directory the "best" link points to (0: no link)
    all_energies  \* the all_energies array of the _LoopState: per row, the loop
                  \* step whose per-node energies it holds

run_vars == <<epoch, test_acc, retval>>

vars == <<program, params, main_pc, batch_n, pc, state, energy, optim_calls,
          result, model, optim_x_state, run_vars, optim, all_energies,
          skip_error, scan, experiment, metrics>>

-----------------------------------------------------------------------------
(* Bounds of the model *)

MaxT == 3
MaxEnergy == 1
MaxThreshold == 1
NumBatches == 2
NumNodes == 2
MaxEpochs == 2
MaxAcc == 1
NumLeaves == 2
MaxOptimSteps == 2
MaxBatchSize == 2
MaxMse == 1

\* main.py: the scan has 8 steps and the switch 2 branches
ScanLength == 8
NumBranches == 2

-----------------------------------------------------------------------------
(* Floating point values: finite numbers, NaN and the infinities *)

Fin(n) == [kind |-> "fin", v |-> n]
NaN == [kind |-> "nan", v |-> 0]
PosInf == [kind |-> "inf", v |-> 0]
NegInf == [kind |-> "-inf", v |-> 0]

IsFinite(a) == a.kind = "fin"

\* a - b in IEEE arithmetic
FSub(a, b) ==
    IF a.kind = "nan" \/ b.kind = "nan" THEN NaN
    ELSE IF a.kind = "fin" /\ b.kind = "fin" THEN Fin(a.v - b.v)
    ELSE IF a.kind = b.kind THEN NaN
    ELSE IF a.kind = "fin" THEN (IF b.kind = "inf" THEN NegInf ELSE PosInf)
    ELSE a

\* jnp.abs
FAbs(a) ==
    IF a.kind = "fin" THEN Fin(IF a.v < 0 THEN -a.v ELSE a.v)
    ELSE IF a.kind = "-inf" THEN PosInf
    ELSE a

\* a > t for a finite number t; every comparison with NaN is false
FGt(a, t) ==
    IF a.kind = "nan" THEN FALSE
    ELSE IF a.kind = "inf" THEN TRUE
    ELSE IF a.kind = "-inf" THEN FALSE
    ELSE a.v > t

\* a < b on floats: false when either is NaN
FLess(a, b) ==
    IF a.kind = "nan" \/ b.kind = "nan" THEN FALSE
    ELSE IF a.kind = "-inf" THEN b.kind # "-inf"
    ELSE IF a.kind = "inf" THEN FALSE
    ELSE IF b.kind = "inf" THEN TRUE
    ELSE IF b.kind = "-inf" THEN FALSE
    ELSE a.v < b.v

\* the values the total energy can take
Energies == {Fin(n) : n \in 0..MaxEnergy} \cup {NaN, PosInf}

-----------------------------------------------------------------------------
(* Configuration *)

KnownPcModes == {"pc", "ppc", "efficient_ppc"}
PcModes == KnownPcModes \cup {"other"}
KnownOptimizers == {"sgd", "adamw"}
OptimizerNames == KnownOptimizers \cup {"other"}

\* no TrainOnBatchResult is held
NoResult == [iterations_done |-> -1, num_x_updates |-> -1, num_w_updates |-> -1]

\* mutant: the initial state carries a stale, non-zero prev_energy
initial_state_StaleEnergy ==
    [iter_index |-> 0, num_x_updates |-> 0, num_w_updates |-> 0,
     prev_energy |-> PosInf, curr_energy |-> Fin(0)]

\* _LoopState at the start of a batch
initial_state ==
    [iter_index |-> 0, num_x_updates |-> 0, num_w_updates |-> 0,
     prev_energy |-> Fin(0), curr_energy |-> Fin(0)]

\* T_min_w_updates, T_min_x_updates and energy_convergence_threshold are read
\* under efficient_ppc only; in the other modes they stay at 0.
\* A configuration varies either the optimizer names or the two switches of
\* the batch prologue (reset_optimizer_x_state,
\* preserve_all_pc_states_between_batches), the other group staying fixed.
Variants ==
    { [optimizer_x |-> ox, optimizer_w |-> ow, reset |-> FALSE, preserve |-> FALSE] :
         ox \in OptimizerNames, ow \in OptimizerNames }
    \cup
    { [optimizer_x |-> "sgd", optimizer_w |-> "sgd", reset |-> r, preserve |-> p] :
         r \in BOOLEAN, p \in BOOLEAN }

TrainModelParams ==
    { [pc_mode |-> m, T |-> t, T_min_w_updates |-> tw, T_min_x_updates |-> tx,
       energy_convergence_threshold |-> th,
       optimizer_x |-> v.optimizer_x, optimizer_w |-> v.optimizer_w,
       optim_w_name |-> "sgd",
       reset_optimizer_x_state |-> v.reset,
       preserve_all_pc_states_between_batches |-> v.preserve,
       epochs |-> 1, save_best_results |-> TRUE] :
         m \in {"efficient_ppc"}, t \in 0..MaxT, tw \in 0..MaxT, tx \in 0..MaxT,
         th \in 0..MaxThreshold, v \in Variants }
    \cup
    { [pc_mode |-> m, T |-> t, T_min_w_updates |-> 0, T_min_x_updates |-> 0,
       energy_convergence_threshold |-> 0,
       optimizer_x |-> v.optimizer_x, optimizer_w |-> v.optimizer_w,
       optim_w_name |-> "sgd",
       reset_optimizer_x_state |-> v.reset,
       preserve_all_pc_states_between_batches |-> v.preserve,
       epochs |-> 1, save_best_results |-> TRUE] :
         m \in PcModes \ {"efficient_ppc"}, t \in 0..MaxT, v \in Variants }
    \cup
    { [pc_mode |-> "pc", T |-> 0, T_min_w_updates |-> 0, T_min_x_updates |-> 0,
       energy_convergence_threshold |-> 0,
       optimizer_x |-> "sgd", optimizer_w |-> "sgd", optim_w_name |-> "sgd",
       reset_optimizer_x_state |-> FALSE,
       preserve_all_pc_states_between_batches |-> FALSE,
       epochs |-> ep, save_best_results |-> sb] :
         ep \in 0..MaxEpochs, sb \in BOOLEAN }

\* run_experiment reads T and optim_w_name
RunExperimentParams ==
    { [pc_mode |-> "pc", T |-> t, T_min_w_updates |-> 0, T_min_x_updates |-> 0,
       energy_convergence_threshold |-> 0,
       optimizer_x |-> "sgd", optimizer_w |-> "sgd", optim_w_name |-> ow,
       reset_optimizer_x_state |-> FALSE,
       preserve_all_pc_states_between_batches |-> FALSE, epochs |-> ep] :
         t \in 0..MaxT, ow \in OptimizerNames, ep \in 0..MaxEpochs }

\* run_experiment has not returned
NoReturn == [kind |-> "none", v |-> 0]

\* the values np.mean(acc) can take: a finite accuracy or NaN
MeanAccs == {Fin(a) : a \in 0..MaxAcc} \cup {NaN}

\* main.py reads none of the parameters
MainParams ==
    { [pc_mode |-> "pc", T |-> 0, T_min_w_updates |-> 0, T_min_x_updates |-> 0,
       energy_convergence_threshold |-> 0,
       optimizer_x |-> "sgd", optimizer_w |-> "sgd", optim_w_name |-> "sgd",
       reset_optimizer_x_state |-> FALSE,
       preserve_all_pc_states_between_batches |-> FALSE, epochs |-> 0] }

\* the values a test MSE can take
TestMses == {Fin(n) : n \in 0..MaxMse} \cup {NaN, PosInf}

\* train_model before its first epoch: best_test_mse = float("inf"), no link
NoMetrics == [test_mses |-> << >>, best_test_mse |-> PosInf, best_epoch_dir |-> 0]

\* run_training_experiment is not running
NoExperiment ==
    [do_hypertunning |-> FALSE, hypertunning_resume_run |-> FALSE,
     overwrite_results_dir |-> FALSE, found |-> "absent",
     results_dir |-> "absent", backup |-> "absent", model |-> FALSE]

\* what a directory can be: absent, empty, or holding the results of an
\* earlier run
DirStates == {"absent", "empty", "results"}

\* the calls of run_training_experiment: the three flags, the results
\* directory found, and whether the backup path is taken already
Experiments ==
    { [do_hypertunning |-> h, hypertunning_resume_run |-> r,
       overwrite_results_dir |-> o, found |-> d,
       results_dir |-> d, backup |-> b, model |-> FALSE] :
         h \in BOOLEAN, r \in BOOLEAN, o \in BOOLEAN, d \in DirStates,
         b \in {"absent", "empty"} }

\* no scan is running
NoScan == [i |-> 0, carry |-> << >>, ys |-> << >>]

\* skip_error.py before its first batch: optim_h holds no state
NoBatch == [optim_h |-> "none", t |-> 0, x_shape0 |-> 1, scale_by |-> 0]

\* the value of a parameter leaf: the batch whose forward pass initialised it
\* (0: construction) and the optimizer updates applied to it since
Value(b, k) == [init |-> b, upd |-> k]

\* the model as constructed: NumNodes pc nodes, a layer between consecutive
\* nodes, nothing saved
InitialModel ==
    [x |-> [i \in 1..NumNodes |-> Value(0, 0)],
     w |-> [j \in 1..(NumNodes - 1) |-> Value(0, 0)],
     saved_pc_states |-> << >>,
     u |-> FALSE]

\* no mask builder or optimizer is under study
NoOptim == [machine |-> "none"]

Init ==
    /\ program \in {"train_model", "run_experiment", "main",
                    "run_training_experiment"}
    /\ params \in (CASE program = "train_model" -> TrainModelParams
                     [] program = "run_experiment" -> RunExperimentParams
                     [] program = "main" -> MainParams
                     [] program = "run_training_experiment" -> MainParams)
    /\ main_pc = (CASE program = "train_model" -> "optim_x"
                    [] program = "run_experiment" -> "setup"
                    [] program = "main" -> "train"
                    [] program = "run_training_experiment" -> "results_dir")
    /\ batch_n = 0
    /\ pc = "idle"
    /\ state = initial_state
    /\ energy = Fin(0)
    /\ optim_calls = << >>
    /\ result = NoResult
    /\ model = InitialModel
    /\ optim_x_state = 0
    /\ epoch = 0
    /\ test_acc = << >>
    /\ retval = NoReturn
    /\ optim = NoOptim
    /\ all_energies = << >>
    /\ skip_error = NoBatch
    /\ scan = NoScan
    /\ metrics = NoMetrics
    /\ experiment \in (IF program = "run_training_experiment"
                       THEN Experiments ELSE {NoExperiment})

-----------------------------------------------------------------------------
(* train_on_batch: the nested iterative solver *)

\* mutant: the inference loop keeps no steps back for the learning loop
t_iterations_NoReserve == params.T

\* the iteration cap of the inference loop
t_iterations ==
    IF params.pc_mode = "efficient_ppc"
    THEN params.T - params.T_min_w_updates
    ELSE params.T

\* mutant: no extra learning step in mode pc
total_iterations_NoExtra == params.T

\* the iteration cap of the learning loop
total_iterations ==
    IF params.pc_mode = "pc" THEN params.T + 1 ELSE params.T

\* mutant: the minimum-dwell disjunct is dropped
eppc_cond_NoDwell(s) ==
    FGt(FAbs(FSub(s.curr_energy, s.prev_energy)),
        params.energy_convergence_threshold)

\* the energy-plateau / minimum-dwell part of the convergence predicate
eppc_cond(s) ==
    \/ FGt(FAbs(FSub(s.curr_energy, s.prev_energy)),
           params.energy_convergence_threshold)
    \/ s.iter_index < params.T_min_x_updates

\* mutant: the plateau rule is applied in every mode
t_loop_should_continue_AlwaysPlateau(s) ==
    s.iter_index < t_iterations /\ eppc_cond(s)

t_loop_should_continue(s) ==
    LET cond == s.iter_index < t_iterations
    IN  IF params.pc_mode = "efficient_ppc" THEN cond /\ eppc_cond(s) ELSE cond

\* mutant: off by one, the learning loop runs one step too many
w_loop_should_continue_Inclusive(s) == s.iter_index <= total_iterations

w_loop_should_continue(s) == s.iter_index < total_iterations

\* update_x of the inference loop's body
t_loop_update_x == TRUE

\* mutant: the inference loop updates the weights in every mode
t_loop_update_w_Always == TRUE

\* mutant: the inference loop never updates the weights
t_loop_update_w_Never == FALSE

\* update_w of the inference loop's body
t_loop_update_w == params.pc_mode = "ppc"

\* mutant: the learning loop updates the activities too
w_loop_update_x_Also == TRUE

\* update_x and update_w of the learning loop's body
w_loop_update_x == FALSE
w_loop_update_w == TRUE

\* whether the learning loop is run at all
runs_w_loop == params.pc_mode \in {"pc", "efficient_ppc"}

\* the optimizers one loop step applies
Applied(update_x, update_w) ==
    (IF update_x THEN {"x"} ELSE {}) \cup (IF update_w THEN {"w"} ELSE {})

\* mutant: every loop step is counted as an activity update
loop_body_CountsEveryStep(s, update_x, update_w, e_prev, e_curr) ==
    [iter_index |-> s.iter_index + 1,
     num_x_updates |-> s.num_x_updates + 1,
     num_w_updates |-> s.num_w_updates + (IF update_w THEN 1 ELSE 0),
     prev_energy |-> e_prev,
     curr_energy |-> e_curr]

\* mutant: prev_energy is the previous state's curr_energy, not the energy the
\* gradient evaluation returned
loop_body_StalePrev(s, update_x, update_w, e_prev, e_curr) ==
    [iter_index |-> s.iter_index + 1,
     num_x_updates |-> s.num_x_updates + (IF update_x THEN 1 ELSE 0),
     num_w_updates |-> s.num_w_updates + (IF update_w THEN 1 ELSE 0),
     prev_energy |-> s.curr_energy,
     curr_energy |-> e_curr]

\* mutant: the iteration index is not advanced
loop_body_NoAdvance(s, update_x, update_w, e_prev, e_curr) ==
    [iter_index |-> s.iter_index,
     num_x_updates |-> s.num_x_updates + (IF update_x THEN 1 ELSE 0),
     num_w_updates |-> s.num_w_updates + (IF update_w THEN 1 ELSE 0),
     prev_energy |-> e_prev,
     curr_energy |-> e_curr]

\* the _LoopState a loop step returns: e_prev is the energy the gradient
\* evaluation saw, e_curr the energy recomputed after the optimizer calls
loop_body(s, update_x, update_w, e_prev, e_curr) ==
    [iter_index |-> s.iter_index + 1,
     num_x_updates |-> s.num_x_updates + (IF update_x THEN 1 ELSE 0),
     num_w_updates |-> s.num_w_updates + (IF update_w THEN 1 ELSE 0),
     prev_energy |-> e_prev,
     curr_energy |-> e_curr]

TrainOnBatchResult(s) ==
    [iterations_done |-> s.iter_index,
     num_x_updates |-> s.num_x_updates,
     num_w_updates |-> s.num_w_updates]

-----------------------------------------------------------------------------
(* The model's parameters and the two optimizers *)

\* the activity leaves of the model (PCDecoder.x_parameters)
x_parameters(m) == { <<"x", i>> : i \in DOMAIN m.x }

\* the weight leaves of the model (PCDecoder.w_parameters)
w_parameters(m) == { <<"w", j>> : j \in DOMAIN m.w }

\* the leaves the activity optimizer is built over
optim_x_params == x_parameters(model)

\* mutant: the weight optimizer is built over every parameter of the model
optim_w_params_All == x_parameters(model) \cup w_parameters(model)

\* the leaves the weight optimizer is built over
optim_w_params == w_parameters(model)

\* one more update of a leaf
Updated(v) == [v EXCEPT !.upd = v.upd + 1]

\* an optimizer applied to the gradients updates the leaves it is built over
OptimCall(m, leaves) ==
    [m EXCEPT
       !.x = [i \in DOMAIN m.x |->
                 IF <<"x", i>> \in leaves THEN Updated(m.x[i]) ELSE m.x[i]],
       !.w = [j \in DOMAIN m.w |->
                 IF <<"w", j>> \in leaves THEN Updated(m.w[j]) ELSE m.w[j]]]

\* the optimizer calls of one loop step: optim_x first, then optim_w
apply_optimizers(m, update_x, update_w) ==
    LET m1 == IF update_x THEN OptimCall(m, optim_x_params) ELSE m
    IN  IF update_w THEN OptimCall(m1, optim_w_params) ELSE m1

\* pxu.train: the activities are initialised by a forward pass on the examples
\* of batch b
forward_init(m, b) ==
    [m EXCEPT !.x = [i \in DOMAIN m.x |-> Value(b, 0)], !.u = TRUE]

\* evaluating the energy caches the predicted values "u" in the nodes
populate_cache(m) == [m EXCEPT !.u = TRUE]

\* mutant: clear_cache leaves the "u" parameters in place
clear_cache_Keeps(m) == m

\* model.clear_cache(): the "u" parameters are dropped
clear_cache(m) == [m EXCEPT !.u = FALSE]

\* with pxu.step(model): the body evaluates energies, and the context clears the
\* cache
pxu_step(m) == clear_cache(populate_cache(m))

\* a row of all_energies: zero, or the per-node energies after the update of
\* the loop step run at iteration index i
ZeroRow == [filled |-> FALSE, step |-> 0]
NodesEnergies(i) == [filled |-> TRUE, step |-> i]

\* jnp.zeros((total_iterations, len(model.pc_nodes)))
zeros_all_energies == [r \in 1..total_iterations |-> ZeroRow]

\* mutant: every step writes the first row
at_set_FirstRow(arr, i, row) ==
    IF 1 \in DOMAIN arr THEN [arr EXCEPT ![1] = row] ELSE arr

\* arr.at[i].set(row) with i counted from 0; an index outside the array
\* updates nothing
at_set(arr, i, row) ==
    IF i + 1 \in DOMAIN arr THEN [arr EXCEPT ![i + 1] = row] ELSE arr

\* mutant: the optimizer state is never reset
resets_optimizer_x_state_Never == FALSE

\* whether the batch prologue calls optim_x.init_state()
resets_optimizer_x_state == params.reset_optimizer_x_state

\* Optim.init_state: the auxiliary state as at construction
init_state == 0

\* mutant: saved activities are written whenever there are any
restores_saved_pc_states_Always(m) == m.saved_pc_states # << >>

\* whether the batch prologue writes the saved activities into the nodes
restores_saved_pc_states(m) ==
    params.preserve_all_pc_states_between_batches /\ m.saved_pc_states # << >>

\* for pc_node, state in zip(model.pc_nodes[1:], model.saved_pc_states)
restore_saved_pc_states(m) ==
    [m EXCEPT !.x = [i \in DOMAIN m.x |->
                        IF i >= 2 /\ i - 1 <= Len(m.saved_pc_states)
                        THEN m.saved_pc_states[i - 1]
                        ELSE m.x[i]]]

\* the model after the prologue of batch b
batch_prologue(m, b) ==
    LET m1 == forward_init(m, b)
    IN  IF restores_saved_pc_states(m1) THEN restore_saved_pc_states(m1) ELSE m1

\* leaving pxu.pc_train_on_batch: the activities of the nodes after the first
\* are kept in saved_pc_states
save_pc_states(m) ==
    [m EXCEPT !.saved_pc_states = [k \in 1..(Len(m.x) - 1) |-> m.x[k + 1]]]

\* train_model calls train_on_batch on the next batch; the energy of the model
\* on the new examples is whatever the data makes it
TrainOnBatchEnter ==
    /\ program = "train_model"
    /\ main_pc = "train"
    /\ epoch < params.epochs
    /\ batch_n < NumBatches * (epoch + 1)
    /\ main_pc' = "in_batch"
    /\ batch_n' = batch_n + 1
    /\ pc' = "t_loop"
    /\ state' = initial_state
    /\ energy' \in Energies
    /\ optim_calls' = << >>
    /\ result' = NoResult
    /\ optim_x_state' = (IF resets_optimizer_x_state THEN init_state
                                                     ELSE optim_x_state)
    /\ model' = clear_cache(batch_prologue(model, batch_n + 1))
    /\ all_energies' = zeros_all_energies
    /\ UNCHANGED <<metrics, experiment, scan, skip_error, optim, run_vars, program, params>>

\* one execution of the inference loop's body
TLoopBody ==
    /\ pc = "t_loop"
    /\ t_loop_should_continue(state)
    /\ \E e \in Energies :
         /\ state' = loop_body(state, t_loop_update_x, t_loop_update_w, energy, e)
         /\ energy' = e
    /\ optim_calls' = Append(optim_calls, Applied(t_loop_update_x, t_loop_update_w))
    /\ model' = pxu_step(apply_optimizers(pxu_step(model), t_loop_update_x, t_loop_update_w))
    /\ all_energies' = at_set(all_energies, state.iter_index,
                              NodesEnergies(state.iter_index))
    /\ optim_x_state' = optim_x_state + (IF t_loop_update_x THEN 1 ELSE 0)
    /\ UNCHANGED <<metrics, experiment, scan, skip_error, optim, run_vars, program, params, main_pc, batch_n, pc, result>>

\* the inference loop ends; the learning loop follows in pc and efficient_ppc
TLoopExit ==
    /\ pc = "t_loop"
    /\ ~t_loop_should_continue(state)
    /\ \/ /\ runs_w_loop
          /\ pc' = "w_loop"
          /\ result' = result
          /\ model' = clear_cache(model)
       \/ /\ ~runs_w_loop
          /\ pc' = "done"
          /\ result' = TrainOnBatchResult(state)
          /\ model' = save_pc_states(model)
    /\ UNCHANGED <<metrics, experiment, scan, skip_error, all_energies, optim, run_vars, program, params, main_pc, batch_n, state, energy, optim_calls,
                   optim_x_state>>

\* one execution of the learning loop's body
WLoopBody ==
    /\ pc = "w_loop"
    /\ w_loop_should_continue(state)
    /\ \E e \in Energies :
         /\ state' = loop_body(state, w_loop_update_x, w_loop_update_w, energy, e)
         /\ energy' = e
    /\ optim_calls' = Append(optim_calls, Applied(w_loop_update_x, w_loop_update_w))
    /\ model' = pxu_step(apply_optimizers(pxu_step(model), w_loop_update_x, w_loop_update_w))
    /\ all_energies' = at_set(all_energies, state.iter_index,
                              NodesEnergies(state.iter_index))
    /\ optim_x_state' = optim_x_state + (IF w_loop_update_x THEN 1 ELSE 0)
    /\ UNCHANGED <<metrics, experiment, scan, skip_error, optim, run_vars, program, params, main_pc, batch_n, pc, result>>

\* the learning loop ends and train_on_batch returns
WLoopExit ==
    /\ pc = "w_loop"
    /\ ~w_loop_should_continue(state)
    /\ pc' = "done"
    /\ result' = TrainOnBatchResult(state)
    /\ model' = save_pc_states(model)
    /\ UNCHANGED <<metrics, experiment, scan, skip_error, all_energies, optim, run_vars, program, params, main_pc, batch_n, state, energy, optim_calls,
                   optim_x_state>>

-----------------------------------------------------------------------------
(* train_model *)

\* mutant: the chain ends in a default branch instead of a raise
OptimizerKnown_AcceptAll(name) == TRUE

\* the names the if / elif chains accept
OptimizerKnown(name) == name \in KnownOptimizers

TM_BuildOptimX ==
    /\ program = "train_model"
    /\ main_pc = "optim_x"
    /\ main_pc' = (IF OptimizerKnown(params.optimizer_x) THEN "optim_w" ELSE "raised")
    /\ UNCHANGED <<metrics, experiment, scan, skip_error, all_energies, optim, run_vars, program, params, batch_n, pc, state, energy, optim_calls, result,
                   model, optim_x_state>>

TM_BuildOptimW ==
    /\ program = "train_model"
    /\ main_pc = "optim_w"
    /\ main_pc' = (IF OptimizerKnown(params.optimizer_w) THEN "train" ELSE "raised")
    /\ UNCHANGED <<metrics, experiment, scan, skip_error, all_energies, optim, run_vars, program, params, batch_n, pc, state, energy, optim_calls, result,
                   model, optim_x_state>>

\* the batch's metrics are logged and the result is deleted
TM_BatchDone ==
    /\ program = "train_model"
    /\ main_pc = "in_batch"
    /\ pc = "done"
    /\ main_pc' = "train"
    /\ pc' = "idle"
    /\ state' = initial_state
    /\ result' = NoResult
    /\ all_energies' = << >>
    /\ UNCHANGED <<metrics, experiment, scan, skip_error, optim, run_vars, program, params, batch_n, energy, optim_calls, model,
                   optim_x_state>>

\* Python's min(a, b): b when b < a, else a
py_min(a, b) == IF FLess(b, a) THEN b ELSE a

\* mutant: an epoch that ties with the best replaces it
should_save_best_results_OnTies(epoch_test_mse, best_test_mse) ==
    params.save_best_results /\ ~FLess(best_test_mse, epoch_test_mse)

\* params.save_best_results and epoch_test_mse < best_test_mse
should_save_best_results(epoch_test_mse, best_test_mse) ==
    params.save_best_results /\ FLess(epoch_test_mse, best_test_mse)

\* the bookkeeping at the end of epoch (counted from 0) with the test MSE given
epoch_end(m, e, epoch_test_mse) ==
    [test_mses |-> Append(m.test_mses, epoch_test_mse),
     best_test_mse |-> py_min(m.best_test_mse, epoch_test_mse),
     best_epoch_dir |->
         IF should_save_best_results(epoch_test_mse, m.best_test_mse)
         THEN e + 1 ELSE m.best_epoch_dir]

\* the train loader of the epoch is exhausted: the test batches give the
\* epoch's test MSE, the best results are kept, and the next epoch starts
TM_EpochEnd ==
    /\ program = "train_model"
    /\ main_pc = "train"
    /\ epoch < params.epochs
    /\ \E epoch_test_mse \in TestMses :
         metrics' = epoch_end(metrics, epoch, epoch_test_mse)
    /\ epoch' = epoch + 1
    /\ UNCHANGED <<experiment, scan, skip_error, all_energies, optim, test_acc, retval,
                   program, params, main_pc, batch_n, pc, state, energy,
                   optim_calls, result, model, optim_x_state>>

\* all epochs are done
TM_Finish ==
    /\ program = "train_model"
    /\ main_pc = "train"
    /\ epoch = params.epochs
    /\ main_pc' = "finished"
    /\ UNCHANGED <<metrics, experiment, scan, skip_error, all_energies, optim, run_vars, program, params, batch_n, pc, state, energy, optim_calls, result,
                   model, optim_x_state>>

-----------------------------------------------------------------------------
(* run_experiment *)

\* seeding, data loaders, model and activity optimizer
RE_Setup ==
    /\ program = "run_experiment"
    /\ main_pc = "setup"
    /\ main_pc' = "optim_w"
    /\ UNCHANGED <<metrics, experiment, scan, skip_error, all_energies, optim, run_vars, program, params, batch_n, pc, state, energy, optim_calls, result,
                   model, optim_x_state>>

RE_BuildOptimW ==
    /\ program = "run_experiment"
    /\ main_pc = "optim_w"
    /\ main_pc' = (IF OptimizerKnown(params.optim_w_name) THEN "train" ELSE "raised")
    /\ UNCHANGED <<metrics, experiment, scan, skip_error, all_energies, optim, run_vars, program, params, batch_n, pc, state, energy, optim_calls, result,
                   model, optim_x_state>>

\* T activity steps with optim_h, then one weight step with optim_w
SkipErrorCalls == [i \in 1..(params.T + 1) |-> IF i <= params.T THEN {"h"} ELSE {"w"}]

\* the energies the model can have after one more batch: parameters that are
\* no longer finite stay so
EnergiesAfter(e) == IF IsFinite(e) THEN Energies ELSE {NaN, PosInf}

\* x.shape[0]
BatchSizes == 1..MaxBatchSize

\* optim_h.init(...): the activity optimizer gets its state
optim_h_init(se) == [se EXCEPT !.optim_h = "ready"]

\* mutant: optim_h.clear() keeps the state
optim_h_clear_Keeps(se) == se

\* optim_h.clear(): the state of the activity optimizer is dropped
optim_h_clear(se) == [se EXCEPT !.optim_h = "none"]

\* scale_by=1.0 / x.shape[0], as the denominator of the fraction
w_scale_by(se) == se.x_shape0

\* train calls train_on_batch on the next batch of the epoch; init step:
\* forward pass, then optim_h.init
SE_InitStep ==
    /\ program = "run_experiment"
    /\ main_pc = "train"
    /\ epoch < params.epochs
    /\ batch_n < NumBatches * (epoch + 1)
    /\ main_pc' = "inference"
    /\ optim_calls' = << >>
    /\ \E b \in BatchSizes :
         skip_error' = optim_h_init([skip_error EXCEPT !.t = 0, !.x_shape0 = b,
                                                      !.scale_by = 0])
    /\ UNCHANGED <<metrics, experiment, scan, all_energies, optim, run_vars, program, params, pc, batch_n, state,
                   energy, result, model, optim_x_state>>

\* for _ in range(T): gradient of the energy, then optim_h.step
SE_InferenceStep ==
    /\ program = "run_experiment"
    /\ main_pc = "inference"
    /\ skip_error.t < params.T
    /\ skip_error' = [skip_error EXCEPT !.t = skip_error.t + 1]
    /\ optim_calls' = Append(optim_calls, {"h"})
    /\ UNCHANGED <<metrics, experiment, scan, all_energies, optim, run_vars, program, params, main_pc, batch_n, pc, state,
                   energy, result, model, optim_x_state>>

\* the for loop is over: optim_h.clear()
SE_Clear ==
    /\ program = "run_experiment"
    /\ main_pc = "inference"
    /\ skip_error.t = params.T
    /\ main_pc' = "learning"
    /\ skip_error' = optim_h_clear(skip_error)
    /\ UNCHANGED <<metrics, experiment, scan, all_energies, optim, run_vars, program, params, pc, batch_n, state,
                   energy, optim_calls, result, model, optim_x_state>>

\* learning step: gradient of the energy, then optim_w.step scaled by
\* 1 / x.shape[0]; train_on_batch returns
SE_LearningStep ==
    /\ program = "run_experiment"
    /\ main_pc = "learning"
    /\ main_pc' = "train"
    /\ skip_error' = [skip_error EXCEPT !.scale_by = w_scale_by(skip_error)]
    /\ optim_calls' = Append(optim_calls, {"w"})
    /\ batch_n' = batch_n + 1
    /\ energy' \in EnergiesAfter(energy)
    /\ UNCHANGED <<metrics, experiment, scan, all_energies, optim, run_vars, program, params, pc, state, result,
                   model, optim_x_state>>

\* np.isnan
is_nan(a) == a.kind = "nan"

\* the epoch's training is over; eval gives mean_acc, and the loop either
\* breaks on NaN or records the accuracy and moves to the next epoch
RE_Eval ==
    /\ program = "run_experiment"
    /\ main_pc = "train"
    /\ epoch < params.epochs
    /\ \E mean_acc \in MeanAccs :
         IF is_nan(mean_acc)
         THEN /\ main_pc' = "break"
              /\ UNCHANGED <<epoch, test_acc>>
         ELSE /\ main_pc' = "train"
              /\ epoch' = epoch + 1
              /\ test_acc' = Append(test_acc, mean_acc)
    /\ UNCHANGED <<metrics, experiment, scan, skip_error, all_energies, optim, retval, program, params, batch_n, pc, state, energy,
                   optim_calls, result, model, optim_x_state>>

\* min of a non-empty list of finite accuracies
Min(accs) ==
    CHOOSE a \in {accs[i] : i \in 1..Len(accs)} :
        \A i \in 1..Len(accs) : a.v <= accs[i].v

\* return min(test_acc) if test_acc else np.nan
ReturnValue(accs) == IF accs # << >> THEN Min(accs) ELSE NaN

\* the epoch loop is over, by exhaustion or by break
RE_Finish ==
    /\ program = "run_experiment"
    /\ \/ main_pc = "train" /\ epoch = params.epochs
       \/ main_pc = "break"
    /\ main_pc' = "finished"
    /\ retval' = ReturnValue(test_acc)
    /\ UNCHANGED <<metrics, experiment, scan, skip_error, all_energies, optim, epoch, test_acc, program, params, batch_n, pc, state, energy,
                   optim_calls, result, model, optim_x_state>>

-----------------------------------------------------------------------------
(* run_training_experiment *)

\* results_dir.exists() and any(results_dir.iterdir())
exists_and_not_empty(e) == e.results_dir = "results"

\* mutant: overwrite_results_dir wins over resuming a hypertuning run
resumes_hypertunning_Second(e) ==
    e.do_hypertunning /\ e.hypertunning_resume_run /\ ~e.overwrite_results_dir

\* params.do_hypertunning and params.hypertunning_resume_run
resumes_hypertunning(e) == e.do_hypertunning /\ e.hypertunning_resume_run

\* shutil.move(results_dir, backup path): the directory and what it holds are
\* at (or inside) the backup path, and no longer at results_dir
shutil_move(e) == [e EXCEPT !.results_dir = "absent", !.backup = "results"]

\* shutil.rmtree(results_dir)
shutil_rmtree(e) == [e EXCEPT !.results_dir = "absent"]

\* results_dir.mkdir(parents=True, exist_ok=True)
mkdir(e) ==
    IF e.results_dir = "absent" THEN [e EXCEPT !.results_dir = "empty"] ELSE e

\* a results directory that is not empty is moved, deleted, or refused
RTE_ResultsDir ==
    /\ program = "run_training_experiment"
    /\ main_pc = "results_dir"
    /\ IF exists_and_not_empty(experiment)
       THEN IF resumes_hypertunning(experiment)
            THEN /\ experiment' = shutil_move(experiment)
                 /\ main_pc' = "model"
            ELSE IF experiment.overwrite_results_dir
                 THEN /\ experiment' = shutil_rmtree(experiment)
                      /\ main_pc' = "model"
                 ELSE /\ main_pc' = "runtime_error"
                      /\ UNCHANGED experiment
       ELSE /\ main_pc' = "model"
            /\ UNCHANGED experiment
    /\ UNCHANGED <<metrics, scan, skip_error, all_energies, optim, run_vars, program, params, batch_n,
                   pc, state, energy, optim_calls, result, model, optim_x_state>>

\* the directory is made and the model constructed
RTE_MakeModel ==
    /\ program = "run_training_experiment"
    /\ main_pc = "model"
    /\ experiment' = [mkdir(experiment) EXCEPT !.model = TRUE]
    /\ main_pc' = "train_model"
    /\ UNCHANGED <<metrics, scan, skip_error, all_energies, optim, run_vars, program, params, batch_n,
                   pc, state, energy, optim_calls, result, model, optim_x_state>>

\* train_model is called on the model and the directory
RTE_TrainModel ==
    /\ program = "run_training_experiment"
    /\ main_pc = "train_model"
    /\ main_pc' = "training"
    /\ UNCHANGED <<metrics, experiment, scan, skip_error, all_energies, optim, run_vars, program, params,
                   batch_n, pc, state, energy, optim_calls, result, model,
                   optim_x_state>>

-----------------------------------------------------------------------------
(* main.py: run_on_batch *)

\* js=np.arange(8)
js == [k \in 1..ScanLength |-> k - 1]

\* mutant: the selector picks the other branch
selector_Swapped(j) == (j + 1) % NumBranches

\* lambda j: j % 2
selector(j) == j % NumBranches

\* trainer.update_fn[NODE_TYPE.X, NODE_TYPE.W]: the activity update and the
\* weight update, in this order
update_fn == <<"X", "W">>

\* switch: the branch the selector picks, counted from 0
switch(j) == update_fn[selector(j) + 1]

\* a branch applied to the carried state and model: they carry one more
\* update, and the step's output is made from what the branch received
branch_carry(b, carry) == Append(carry, b)
branch_y(b, j, carry) == [j |-> j, branch |-> b, received |-> carry]

\* the training loop calls run_on_batch: init_fn, and the scan starts from the
\* state and model given
RB_Init ==
    /\ program = "main"
    /\ main_pc = "train"
    /\ batch_n < NumBatches
    /\ main_pc' = "scan"
    /\ scan' = NoScan
    /\ UNCHANGED <<metrics, experiment, skip_error, all_energies, optim, run_vars, program, params, pc, batch_n,
                   state, energy, optim_calls, result, model, optim_x_state>>

\* one step of the scan: the next element of js, the branch switch picks
RB_ScanStep ==
    /\ program = "main"
    /\ main_pc = "scan"
    /\ scan.i < Len(js)
    /\ LET j == js[scan.i + 1]
           b == switch(j)
       IN scan' = [i |-> scan.i + 1,
                   carry |-> branch_carry(b, scan.carry),
                   ys |-> Append(scan.ys, branch_y(b, j, scan.carry))]
    /\ UNCHANGED <<metrics, experiment, skip_error, all_energies, optim, run_vars, program, params, main_pc, batch_n,
                   pc, state, energy, optim_calls, result, model, optim_x_state>>

\* the scan is over: run_on_batch returns the carried state and model
RB_Return ==
    /\ program = "main"
    /\ main_pc = "scan"
    /\ scan.i = Len(js)
    /\ main_pc' = "train"
    /\ batch_n' = batch_n + 1
    /\ UNCHANGED <<metrics, experiment, scan, skip_error, all_energies, optim, run_vars, program, params, pc,
                   state, energy, optim_calls, result, model, optim_x_state>>

-----------------------------------------------------------------------------

Next ==
    \/ TM_BuildOptimX
    \/ TM_BuildOptimW
    \/ TrainOnBatchEnter
    \/ TLoopBody
    \/ TLoopExit
    \/ WLoopBody
    \/ WLoopExit
    \/ TM_BatchDone
    \/ TM_EpochEnd
    \/ TM_Finish
    \/ RE_Setup
    \/ RE_BuildOptimW
    \/ SE_InitStep
    \/ SE_InferenceStep
    \/ SE_Clear
    \/ SE_LearningStep
    \/ RE_Eval
    \/ RE_Finish
    \/ RB_Init
    \/ RB_ScanStep
    \/ RB_Return
    \/ RTE_ResultsDir
    \/ RTE_MakeModel
    \/ RTE_TrainModel

Spec == Init /\ [][Next]_vars

\* a step of train_on_batch
TrainOnBatchStep == TLoopBody \/ TLoopExit \/ WLoopBody \/ WLoopExit

\* the runs with the default optimizers and batch prologue: every mode, T,
\* threshold and minimum-dwell setting
PlainInit ==
    /\ Init
    /\ params.optimizer_x = "sgd" /\ params.optimizer_w = "sgd"
    /\ ~params.reset_optimizer_x_state
    /\ ~params.preserve_all_pc_states_between_batches

\* train_on_batch is sequential code: a step that can run does run
FairSpec == PlainInit /\ [][Next]_vars /\ WF_vars(TrainOnBatchStep)

-----------------------------------------------------------------------------
(* Masks and the masked optimizer *)

Roles == {"ACTIVITY", "WEIGHT"}
Statuses == {"TRAINABLE", "FROZEN", "CACHE"}

\* what a predicate of a mask sees of a leaf
LeafKinds == Roles \X Statuses

\* a parameter tree, as the sequence of its leaves
ParamTrees == [1..NumLeaves -> LeafKinds]

\* a predicate over (role, status), as the set of kinds it accepts
Predicates == SUBSET LeafKinds

\* the logical complement of a predicate
Complement(P) == LeafKinds \ P

\* mutant: leaves with status CACHE are never included
mask_SkipsCache(tree, P) ==
    [i \in DOMAIN tree |->
        IF tree[i] \in P /\ tree[i][2] # "CACHE" THEN "INCLUDED" ELSE "EXCLUDED"]

\* mask(model, predicate) -> MaskTree
mask(tree, P) ==
    [i \in DOMAIN tree |-> IF tree[i] \in P THEN "INCLUDED" ELSE "EXCLUDED"]

MaskTrees == [1..NumLeaves -> {"INCLUDED", "EXCLUDED"}]

\* a gradient entry: a number, or no entry
NoGrad == [has |-> FALSE, v |-> 0]
Grad(g) == [has |-> TRUE, v |-> g]
GradientTrees == [1..NumLeaves -> {NoGrad, Grad(0), Grad(1)}]
ScaleBys == {1, 2}

\* optimizer state of a leaf: a momentum buffer, or none
NoBuffer == [has |-> FALSE, v |-> 0]
Buffer(b) == [has |-> TRUE, v |-> b]

\* Optim.init: a buffer for every masked-in leaf
init(m) == [i \in DOMAIN m |-> IF m[i] = "INCLUDED" THEN Buffer(0) ELSE NoBuffer]

\* Optim.init_state: every buffer back to its initial value
reset_state(st) == [i \in DOMAIN st |-> IF st[i].has THEN Buffer(0) ELSE st[i]]

\* a masked-in leaf has no gradient entry
MissingGradient(m, gradients) ==
    \E i \in DOMAIN m : m[i] = "INCLUDED" /\ ~gradients[i].has

\* mutant: missing gradients are accepted whatever the flag says
step_fails_Never(o, gradients) == FALSE

\* whether step raises MissingGradient
step_fails(o, gradients) ==
    ~o.allow_missing_grads /\ MissingGradient(o.mask, gradients)

\* the gradient the rule sees for leaf i
scaled(gradients, scale_by, i) ==
    (IF gradients[i].has THEN gradients[i].v ELSE 0) * scale_by

\* the momentum buffers after a step
step_state(o, gradients, scale_by) ==
    [i \in DOMAIN o.mask |->
        IF o.mask[i] = "INCLUDED"
        THEN Buffer(o.state[i].v + scaled(gradients, scale_by, i))
        ELSE o.state[i]]

\* mutant: the update is applied to every leaf
step_params_Unmasked(o, gradients, scale_by) ==
    [i \in DOMAIN o.mask |->
        o.params[i] - (o.state[i].v + scaled(gradients, scale_by, i))]

\* the parameters after a step: the rule's delta on the masked-in leaves
step_params(o, gradients, scale_by) ==
    [i \in DOMAIN o.mask |->
        IF o.mask[i] = "INCLUDED"
        THEN o.params[i] - (o.state[i].v + scaled(gradients, scale_by, i))
        ELSE o.params[i]]

\* a mask is built from a predicate and from its complement
MaskInit ==
    \E tree \in ParamTrees, P \in Predicates :
        optim = [machine |-> "mask", tree |-> tree, predicate |-> P,
                 built |-> FALSE, mask_p |-> << >>, mask_not_p |-> << >>]

\* Optim(rule, mask, allow_missing_grads) over a model with zero parameters
OptimInit0 ==
    \E m \in MaskTrees, a \in BOOLEAN :
        optim = [machine |-> "optim", mask |-> m, allow_missing_grads |-> a,
                 params |-> [i \in 1..NumLeaves |-> 0],
                 state |-> [i \in 1..NumLeaves |-> NoBuffer],
                 initialised |-> FALSE, calls |-> 0, error |-> "none",
                 gradients |-> [i \in 1..NumLeaves |-> NoGrad], scale_by |-> 1]

\* everything outside the mask builder and the optimizer stands still
OptimInit ==
    /\ program = "optim"
    /\ params = [pc_mode |-> "pc"]
    /\ main_pc = "idle"
    /\ batch_n = 0
    /\ pc = "idle"
    /\ state = initial_state
    /\ energy = Fin(0)
    /\ optim_calls = << >>
    /\ result = NoResult
    /\ model = InitialModel
    /\ optim_x_state = 0
    /\ epoch = 0
    /\ test_acc = << >>
    /\ retval = NoReturn
    /\ all_energies = << >>
    /\ skip_error = NoBatch
    /\ scan = NoScan
    /\ metrics = NoMetrics
    /\ experiment = NoExperiment
    /\ (MaskInit \/ OptimInit0)

Rest == <<program, params, main_pc, batch_n, pc, state, energy, optim_calls,
          result, model, optim_x_state, run_vars, all_energies,
          skip_error, scan, experiment, metrics>>

M_Build ==
    /\ optim.machine = "mask"
    /\ ~optim.built
    /\ optim' = [optim EXCEPT !.built = TRUE,
                              !.mask_p = mask(optim.tree, optim.predicate),
                              !.mask_not_p = mask(optim.tree,
                                                  Complement(optim.predicate))]
    /\ UNCHANGED Rest

O_Init ==
    /\ optim.machine = "optim"
    /\ ~optim.initialised
    /\ optim.error = "none"
    /\ optim' = [optim EXCEPT !.initialised = TRUE, !.state = init(optim.mask)]
    /\ UNCHANGED Rest

\* step(model, gradients, scale_by)
O_Step ==
    /\ optim.machine = "optim"
    /\ optim.initialised
    /\ optim.error = "none"
    /\ optim.calls < MaxOptimSteps
    /\ \E gradients \in GradientTrees, scale_by \in ScaleBys :
         IF step_fails(optim, gradients)
         THEN optim' = [optim EXCEPT !.calls = optim.calls + 1,
                                     !.error = "MissingGradient",
                                     !.gradients = gradients,
                                     !.scale_by = scale_by]
         ELSE optim' = [optim EXCEPT !.calls = optim.calls + 1,
                                     !.params = step_params(optim, gradients, scale_by),
                                     !.state = step_state(optim, gradients, scale_by),
                                     !.gradients = gradients,
                                     !.scale_by = scale_by]
    /\ UNCHANGED Rest

\* init_state()
O_InitState ==
    /\ optim.machine = "optim"
    /\ optim.initialised
    /\ optim.error = "none"
    /\ optim.state # reset_state(optim.state)
    /\ optim' = [optim EXCEPT !.state = reset_state(optim.state)]
    /\ UNCHANGED Rest

OptimNext == M_Build \/ O_Init \/ O_Step \/ O_InitState

OptimSpec == OptimInit /\ [][OptimNext]_vars

-----------------------------------------------------------------------------
(* Properties of the solver *)

InferenceDone == pc \in {"w_loop", "done"}

\* C1: in mode pc, when train_on_batch returns it has applied the activity
\* optimizer in each of the first T loop steps and the weight optimizer in one
\* further step, and reports num_x_updates = T, num_w_updates = 1 and
\* iterations_done = T + 1, whatever the energies were.
C1_PcCalls ==
    [i \in 1..(params.T + 1) |-> IF i <= params.T THEN {"x"} ELSE {"w"}]

C1_PcRunsTThenOne ==
    (program = "train_model" /\ params.pc_mode = "pc" /\ pc = "done") =>
        /\ result = [iterations_done |-> params.T + 1,
                     num_x_updates |-> params.T,
                     num_w_updates |-> 1]
        /\ optim_calls = C1_PcCalls

C1_Witness ==
    /\ program = "train_model" /\ params.pc_mode = "pc" /\ pc = "done"
    /\ params.T >= 2
    /\ result.num_x_updates = params.T /\ result.num_w_updates = 1
    /\ ~IsFinite(state.prev_energy)

\* C2: in mode efficient_ppc the loop-step counter of a batch never exceeds T:
\* at most T optimizer steps are applied and iterations_done <= T.
C2_EppcNeverExceedsT ==
    (program = "train_model" /\ params.pc_mode = "efficient_ppc") =>
        /\ state.iter_index <= params.T
        /\ Len(optim_calls) <= params.T
        /\ (pc = "done" => result.iterations_done <= params.T)

C2_Witness ==
    /\ params.pc_mode = "efficient_ppc" /\ pc = "done"
    /\ result.iterations_done = params.T
    /\ result.num_x_updates >= 1 /\ result.num_w_updates >= 1
    /\ params.T_min_w_updates = 0

\* C3 as stated: in mode efficient_ppc, once the inference loop has ended at
\* least T_min_x_updates activity updates have been executed.
C3_Original ==
    (params.pc_mode = "efficient_ppc" /\ InferenceDone) =>
        state.num_x_updates >= params.T_min_x_updates

\* C3 amended: in mode efficient_ppc the inference loop never ends before
\* T_min_x_updates activity updates unless its hard cap of
\* T - T_min_w_updates steps has been reached.
C3_MinDwellUnlessCap ==
    (params.pc_mode = "efficient_ppc" /\ InferenceDone) =>
        \/ state.num_x_updates >= params.T_min_x_updates
        \/ state.num_x_updates >= params.T - params.T_min_w_updates

\* the energy has plateaued from the first step on, yet the loop ran its
\* minimum of two steps and stopped there, below the cap
C3_Witness ==
    /\ params.pc_mode = "efficient_ppc" /\ pc = "w_loop"
    /\ state.num_w_updates = 0
    /\ params.T_min_x_updates >= 2
    /\ state.num_x_updates = params.T_min_x_updates
    /\ state.num_x_updates < params.T - params.T_min_w_updates
    /\ state.prev_energy = Fin(0) /\ state.curr_energy = Fin(0)

\* C4: the inference loop takes another step from a loop state exactly when,
\* in mode efficient_ppc, iter_index < T - T_min_w_updates and
\* (|curr_energy - prev_energy| > energy_convergence_threshold or
\* iter_index < T_min_x_updates), and in the other modes iter_index < T.
C4_ClaimedCondition ==
    IF params.pc_mode = "efficient_ppc"
    THEN /\ state.iter_index < params.T - params.T_min_w_updates
         /\ \/ FGt(FAbs(FSub(state.curr_energy, state.prev_energy)),
                   params.energy_convergence_threshold)
            \/ state.iter_index < params.T_min_x_updates
    ELSE state.iter_index < params.T

C4_ContinuesExactlyWhen ==
    [][ pc = "t_loop" =>
          ( (pc' = "t_loop" /\ state'.iter_index = state.iter_index + 1)
            <=> C4_ClaimedCondition ) ]_vars

\* below the cap and past the minimum dwell, the loop is about to stop on a
\* plateau; the last step changed the energy by no more than the threshold
C4_Witness ==
    /\ params.pc_mode = "efficient_ppc" /\ pc = "t_loop"
    /\ state.iter_index >= 1
    /\ state.iter_index >= params.T_min_x_updates
    /\ state.iter_index < params.T - params.T_min_w_updates
    /\ state.prev_energy # state.curr_energy
    /\ ~C4_ClaimedCondition

\* C5: in mode ppc every loop step applies both the activity and the weight
\* optimizer, the learning loop is never entered, and train_on_batch returns
\* num_x_updates = num_w_updates = iterations_done = T.
C5_PpcUpdatesBothEveryStep ==
    (program = "train_model" /\ params.pc_mode = "ppc") =>
        /\ pc # "w_loop"
        /\ \A i \in 1..Len(optim_calls) : optim_calls[i] = {"x", "w"}
        /\ pc = "done" =>
             /\ Len(optim_calls) = params.T
             /\ result = [iterations_done |-> params.T,
                          num_x_updates |-> params.T,
                          num_w_updates |-> params.T]

C5_Witness ==
    /\ params.pc_mode = "ppc" /\ pc = "done"
    /\ params.T >= 2
    /\ Len(optim_calls) = params.T
    /\ result.num_w_updates = params.T

\* C6: in mode efficient_ppc with 0 <= T_min_w_updates <= T, train_on_batch
\* returns num_x_updates + num_w_updates = T and
\* num_w_updates >= T_min_w_updates.
C6_EppcLearningFillsUpToT ==
    ( /\ program = "train_model" /\ params.pc_mode = "efficient_ppc"
      /\ 0 <= params.T_min_w_updates /\ params.T_min_w_updates <= params.T
      /\ pc = "done" ) =>
        /\ result.num_x_updates + result.num_w_updates = params.T
        /\ result.num_w_updates >= params.T_min_w_updates

\* the inference loop stopped early, so the learning loop ran more than its
\* reserved minimum
C6_Witness ==
    /\ params.pc_mode = "efficient_ppc" /\ pc = "done"
    /\ params.T_min_w_updates >= 1
    /\ params.T_min_w_updates <= params.T
    /\ result.num_x_updates >= 1
    /\ result.num_w_updates > params.T_min_w_updates

\* C7: within a batch the phases follow each other as inference, learning
\* (modes pc and efficient_ppc only), done; and in modes pc and efficient_ppc
\* no loop step applies the activity optimizer after a step that applied the
\* weight optimizer.
C7_NoActivityAfterWeight ==
    (program = "train_model" /\ params.pc_mode \in {"pc", "efficient_ppc"}) =>
        \A i, j \in 1..Len(optim_calls) :
            (i < j /\ "w" \in optim_calls[i]) => "x" \notin optim_calls[j]

C7_PhaseStep ==
    /\ pc = "idle" => pc' \in {"idle", "t_loop"}
    /\ pc = "t_loop" => pc' \in {"t_loop", "w_loop", "done"}
    /\ pc = "w_loop" => pc' \in {"w_loop", "done"}
    /\ pc = "done" => pc' \in {"done", "idle"}
    /\ pc' = "w_loop" => params.pc_mode \in {"pc", "efficient_ppc"}
    /\ (pc = "t_loop" /\ pc' = "done") =>
           params.pc_mode \notin {"pc", "efficient_ppc"}

C7_PhaseOrder ==
    /\ [] C7_NoActivityAfterWeight
    /\ [][C7_PhaseStep]_vars

C7_Witness ==
    /\ params.pc_mode = "efficient_ppc" /\ pc = "done"
    /\ Len(optim_calls) >= 3
    /\ optim_calls[1] = {"x"}
    /\ optim_calls[Len(optim_calls) - 1] = {"w"}
    /\ optim_calls[Len(optim_calls)] = {"w"}

\* C8 as stated: a diverged inference loop is not reported like a converged
\* one.  The only trace the stop of the inference loop leaves in the result is
\* that it ended below its cap (num_x_updates < T - T_min_w_updates), which is
\* how a stop on the energy threshold shows; so whenever the loop has ended
\* below its cap, the energies it last compared are finite.
C8_DivergenceNotReportedAsConvergence ==
    ( /\ program = "train_model" /\ params.pc_mode = "efficient_ppc"
      /\ pc = "w_loop" /\ state.num_w_updates = 0
      /\ state.iter_index < params.T - params.T_min_w_updates ) =>
        /\ IsFinite(state.prev_energy)
        /\ IsFinite(state.curr_energy)

\* C9: with an unknown optimizer name (optimizer_x or optimizer_w of
\* train_model, optim_w_name of run_experiment) the run never gets past the
\* construction of the optimizers: no train_on_batch call is started and no
\* optimizer is applied to the model; and an error is raised only for an
\* unknown name.
C9_UnknownName ==
    IF program = "train_model"
    THEN \/ params.optimizer_x \notin KnownOptimizers
         \/ params.optimizer_w \notin KnownOptimizers
    ELSE params.optim_w_name \notin KnownOptimizers

C9_UnknownOptimizerRejectedFirst ==
    /\ C9_UnknownName =>
         /\ main_pc \in {"optim_x", "setup", "optim_w", "raised"}
         /\ batch_n = 0
         /\ pc = "idle"
         /\ optim_calls = << >>
    /\ main_pc = "raised" => C9_UnknownName

\* the activity optimizer was built, the name of the weight optimizer is
\* unknown and the error has been raised
C9_Witness ==
    /\ program = "train_model"
    /\ main_pc = "raised"
    /\ params.optimizer_x \in KnownOptimizers
    /\ params.optimizer_w \notin KnownOptimizers
    /\ batch_n = 0

\* C10 as stated: under a pc_mode other than pc, ppc and efficient_ppc
\* train_on_batch executes no loop step.
C10_UnknownModeRunsNoStep ==
    (program = "train_model" /\ params.pc_mode \notin KnownPcModes) =>
        /\ state.iter_index = 0
        /\ optim_calls = << >>

-----------------------------------------------------------------------------
(* Properties of the parameters, the optimizers and the batch prologue *)

InLoop == program = "train_model" /\ pc \in {"t_loop", "w_loop"}

\* a loop step: one execution of a loop body
LoopStep == InLoop /\ state'.iter_index = state.iter_index + 1

\* the first step of train_on_batch: the prologue of a batch
BatchStart == program = "train_model" /\ pc = "idle" /\ pc' = "t_loop"

\* no loop step has run yet in the current batch
BeforeFirstStep ==
    program = "train_model" /\ pc = "t_loop" /\ state.iter_index = 0

C11_DisjointParameterSets == optim_x_params \cap optim_w_params = {}

C11_LeafUpdatedAtMostOnce ==
    LoopStep =>
        /\ \A i \in DOMAIN model.x : model'.x[i].upd <= model.x[i].upd + 1
        /\ \A j \in DOMAIN model.w : model'.w[j].upd <= model.w[j].upd + 1

\* C11: the activity optimizer and the weight optimizer are built over
\* disjoint sets of leaves, and a loop step of any mode updates every leaf at
\* most once, also when both optimizers are applied in the step.
C11_OneOptimizerPerLeaf ==
    /\ [] C11_DisjointParameterSets
    /\ [][C11_LeafUpdatedAtMostOnce]_vars

C11_Witness ==
    /\ program = "train_model" /\ params.pc_mode = "ppc"
    /\ Len(optim_calls) >= 1
    /\ optim_calls[Len(optim_calls)] = {"x", "w"}
    /\ \A i \in DOMAIN model.x : model.x[i].upd = Len(optim_calls)
    /\ \A j \in DOMAIN model.w : model.w[j].upd = Len(optim_calls)

C12_FrameOfStep ==
    (program = "train_model" /\ params.pc_mode \in {"pc", "efficient_ppc"}) =>
        /\ pc = "t_loop" => model'.w = model.w
        /\ pc = "w_loop" => model'.x = model.x
        /\ model'.w # model.w => (pc = "w_loop" /\ pc' = "w_loop")

\* C12: in modes pc and efficient_ppc a step of the inference loop leaves every
\* weight unchanged, a step of the learning loop leaves every activity
\* unchanged, and the weights change in learning-loop steps only.
C12_LoopsTouchOnlyTheirLeaves == [][C12_FrameOfStep]_vars

C12_Witness ==
    /\ program = "train_model" /\ params.pc_mode = "efficient_ppc"
    /\ pc = "done"
    /\ state.num_x_updates >= 1 /\ state.num_w_updates >= 1
    /\ model.x[1] = Value(batch_n, state.num_x_updates)
    /\ model.w[1].upd >= 1

C16_FreshAtBatchStart ==
    (BeforeFirstStep /\ params.reset_optimizer_x_state) =>
        optim_x_state = init_state

C16_PrologueKeepsParameters ==
    BatchStart =>
        /\ model'.w = model.w
        /\ \A i \in DOMAIN model.x :
              \/ model'.x[i] = Value(batch_n', 0)
              \/ /\ params.preserve_all_pc_states_between_batches
                 /\ i >= 2 /\ i - 1 <= Len(model.saved_pc_states)
                 /\ model'.x[i] = model.saved_pc_states[i - 1]

\* C16: with reset_optimizer_x_state set, before the first loop step of every
\* batch the auxiliary state of the activity optimizer is the one of its
\* construction, whatever the earlier batches did; the prologue changes no
\* weight, and an activity only to its forward-pass or carried-over value.
C16_OptimizerStateReset ==
    /\ [] C16_FreshAtBatchStart
    /\ [][C16_PrologueKeepsParameters]_vars

C16_Witness ==
    /\ BeforeFirstStep /\ params.reset_optimizer_x_state
    /\ batch_n = 2
    /\ model.saved_pc_states[1].upd >= 2
    /\ optim_x_state = init_state

\* C17: the prologue of a batch writes saved activities into the nodes exactly
\* when preserve_all_pc_states_between_batches is set and states were saved:
\* then every node after the first starts from its saved state, and otherwise
\* every node starts from the forward pass.
C17_PrologueCarryOver ==
    BatchStart =>
        IF params.preserve_all_pc_states_between_batches
               /\ model.saved_pc_states # << >>
        THEN /\ model'.x[1] = Value(batch_n', 0)
             /\ \A i \in 2..Len(model.x) :
                   model'.x[i] = model.saved_pc_states[i - 1]
        ELSE \A i \in DOMAIN model.x : model'.x[i] = Value(batch_n', 0)

StepsApplying(o) == { i \in 1..Len(optim_calls) : o \in optim_calls[i] }

\* C18: throughout a batch num_x_updates, num_w_updates and iter_index are the
\* numbers of loop steps that applied the activity optimizer, applied the
\* weight optimizer, and ran; they are 0 before the first step, and they are
\* the counts train_on_batch returns.
C18_CountsAreUpdatesPerformed ==
    (program = "train_model" /\ pc \in {"t_loop", "w_loop", "done"}) =>
        /\ state.num_x_updates = Cardinality(StepsApplying("x"))
        /\ state.num_w_updates = Cardinality(StepsApplying("w"))
        /\ state.iter_index = Len(optim_calls)
        /\ model.x[1].upd = state.num_x_updates
        /\ BeforeFirstStep =>
              (state.num_x_updates = 0 /\ state.num_w_updates = 0)
        /\ pc = "done" =>
              /\ result.num_x_updates = state.num_x_updates
              /\ result.num_w_updates = state.num_w_updates
              /\ result.iterations_done = state.iter_index

C18_Witness ==
    /\ program = "train_model" /\ params.pc_mode = "efficient_ppc"
    /\ pc = "done" /\ batch_n = 2
    /\ result.num_x_updates = 2 /\ result.num_w_updates = 1
    /\ result.iterations_done = 3
    /\ model.w[1].upd >= 2

-----------------------------------------------------------------------------
(* Termination of train_on_batch *)

\* the steps train_on_batch can still take: the loop steps left up to T + 1
\* iterations, and the loop exits left
StepsLeft ==
    IF ~InLoop THEN 0
    ELSE (IF pc = "t_loop" THEN 2 ELSE 1) * (params.T + 2)
             + (params.T + 1 - state.iter_index)

C19_Decreases == InLoop => (StepsLeft' < StepsLeft /\ StepsLeft' >= 0)

\* the inference loop is left below its iteration cap only when the
\* convergence predicate of efficient_ppc is false
C19_EarlyExit ==
    (InLoop /\ pc = "t_loop" /\ pc' # "t_loop"
         /\ state.iter_index < t_iterations) =>
        (params.pc_mode = "efficient_ppc" /\ ~eppc_cond(state))

C19_CanStep == InLoop => ENABLED TrainOnBatchStep

\* C19: train_on_batch terminates in every mode, for every T >= 0 and every
\* sequence of energies: inside the loops a step is always possible, every step
\* lowers a non-negative measure, every batch that started reaches its return,
\* and the inference loop ends below its cap only by the convergence predicate.
C19_Terminates ==
    /\ [] C19_CanStep
    /\ [][C19_Decreases /\ C19_EarlyExit]_vars
    /\ (InLoop ~> (pc = "done"))

C19_Witness ==
    /\ program = "train_model" /\ params.pc_mode = "efficient_ppc"
    /\ pc = "done" /\ params.T = MaxT
    /\ state.iter_index = MaxT
    /\ ~IsFinite(state.prev_energy) /\ ~IsFinite(state.curr_energy)
    /\ state.num_x_updates >= 2

-----------------------------------------------------------------------------
(* Properties of run_experiment *)

\* the model's parameters are no longer finite
Diverged == ~IsFinite(energy)

\* C20 as stated: a run of run_experiment in which training diverged returns
\* the sentinel score (NaN), in whichever epoch the divergence occurred.
C20_DivergedRunReturnsSentinel ==
    (program = "run_experiment" /\ main_pc = "finished" /\ Diverged) =>
        retval = NaN

-----------------------------------------------------------------------------
(* Properties of the masks and of the masked optimizer *)

\* C13: for every parameter tree and every predicate P, every leaf is included
\* by exactly one of the mask built from P and the mask built from the
\* complement of P.
C13_MasksPartitionLeaves ==
    (optim.machine = "mask" /\ optim.built) =>
        \A i \in DOMAIN optim.tree :
            (optim.mask_p[i] = "INCLUDED") # (optim.mask_not_p[i] = "INCLUDED")

C13_Witness ==
    /\ optim.machine = "mask" /\ optim.built
    /\ \E i, j \in DOMAIN optim.tree :
          /\ optim.tree[i][2] = "CACHE" /\ optim.mask_p[i] = "INCLUDED"
          /\ optim.tree[j][2] = "FROZEN" /\ optim.mask_not_p[j] = "INCLUDED"

\* a call of Optim.step
OptimStepCall == optim.machine = "optim" /\ optim'.calls = optim.calls + 1

AllExcluded(m) == \A i \in DOMAIN m : m[i] = "EXCLUDED"

C14_StepUnderEmptyMask ==
    (OptimStepCall /\ AllExcluded(optim.mask)) =>
        /\ optim'.params = optim.params
        /\ optim'.error = "none"

\* C14: a step of an optimizer whose mask excludes every leaf succeeds and
\* leaves every parameter unchanged, whatever the gradients and scale_by.
C14_EmptyMaskStepIsIdentity == [][C14_StepUnderEmptyMask]_vars

C14_Witness ==
    /\ optim.machine = "optim" /\ optim.calls = 1
    /\ AllExcluded(optim.mask)
    /\ \A i \in DOMAIN optim.mask : optim.gradients[i] = Grad(1)
    /\ optim.scale_by = 2
    /\ \A i \in DOMAIN optim.mask : optim.params[i] = 0
    /\ optim.error = "none"

\* the gradients with every missing entry replaced by zero
ZeroFilled(gradients) ==
    [i \in DOMAIN gradients |->
        IF gradients[i].has THEN gradients[i] ELSE Grad(0)]

C15_StepWithMissingGradient ==
    (OptimStepCall /\ MissingGradient(optim.mask, optim'.gradients)) =>
        IF ~optim.allow_missing_grads
        THEN /\ optim'.error = "MissingGradient"
             /\ optim'.params = optim.params
        ELSE /\ optim'.error = "none"
             /\ optim'.params =
                    step_params(optim, ZeroFilled(optim'.gradients), optim'.scale_by)
             /\ optim'.state =
                    step_state(optim, ZeroFilled(optim'.gradients), optim'.scale_by)

\* C15: a step that meets a masked-in leaf without a gradient entry fails with
\* MissingGradient when allow_missing_grads is false, and when it is true
\* succeeds with the result of a zero gradient for that leaf.
C15_MissingGradientHandling == [][C15_StepWithMissingGradient]_vars

C15_Witness ==
    /\ optim.machine = "optim" /\ optim.calls = 1
    /\ ~optim.allow_missing_grads
    /\ optim.error = "MissingGradient"
    /\ \E i, j \in DOMAIN optim.mask :
          /\ optim.mask[i] = "INCLUDED" /\ ~optim.gradients[i].has
          /\ optim.mask[j] = "INCLUDED" /\ optim.gradients[j] = Grad(1)
          /\ optim.params[j] = 0

-----------------------------------------------------------------------------
(* Properties of the loop state *)

C22_EnergiesOfStep ==
    LoopStep =>
        /\ state'.prev_energy = energy
        /\ state'.curr_energy = energy'
        /\ (params.pc_mode = "efficient_ppc" /\ pc' = "t_loop") =>
               (eppc_cond(state') <=>
                   \/ FGt(FAbs(FSub(energy', energy)),
                          params.energy_convergence_threshold)
                   \/ state'.iter_index < params.T_min_x_updates)

\* C22: a loop step returns as prev_energy the total energy of the parameters
\* it started from and as curr_energy the total energy of the parameters it
\* leaves, and the next convergence check compares exactly these two.
C22_PrevAndCurrEnergy == [][C22_EnergiesOfStep]_vars

C22_Witness ==
    /\ program = "train_model" /\ params.pc_mode = "efficient_ppc"
    /\ pc = "t_loop" /\ state.iter_index = 1
    /\ state.prev_energy = Fin(1) /\ state.curr_energy = PosInf
    /\ energy = PosInf
    /\ t_loop_should_continue(state)

Least(a, b) == IF a <= b THEN a ELSE b

\* C27: under efficient_ppc the convergence predicate first sees the initial
\* state, whose two energies are 0: with T_min_x_updates = 0 the inference
\* loop makes no activity update and the batch makes T weight updates, and in
\* general the inference loop makes at least
\* min(T_min_x_updates, T - T_min_w_updates) steps.
C27_FirstCheckSeesZeroEnergies ==
    (program = "train_model" /\ params.pc_mode = "efficient_ppc") =>
        /\ BeforeFirstStep =>
              (state.prev_energy = Fin(0) /\ state.curr_energy = Fin(0))
        /\ InferenceDone =>
              /\ state.num_x_updates >=
                     Least(params.T_min_x_updates, params.T - params.T_min_w_updates)
              /\ params.T_min_x_updates = 0 =>
                     /\ state.num_x_updates = 0
                     /\ pc = "done" => state.num_w_updates = params.T

C27_Witness ==
    /\ program = "train_model" /\ params.pc_mode = "efficient_ppc"
    /\ params.T_min_x_updates = 0 /\ params.T_min_w_updates = 0
    /\ params.T = MaxT /\ pc = "done"
    /\ state.num_x_updates = 0 /\ state.num_w_updates = MaxT
    /\ state.prev_energy = Fin(1) /\ state.curr_energy = Fin(0)

InBatch == program = "train_model" /\ pc \in {"t_loop", "w_loop", "done"}

C23_RowsOfStepsRun ==
    InBatch =>
        /\ Len(all_energies) = total_iterations
        /\ \A r \in 1..Len(all_energies) :
              all_energies[r] = (IF r <= state.iter_index
                                 THEN NodesEnergies(r - 1) ELSE ZeroRow)

C23_StepWritesItsRow ==
    LoopStep =>
        /\ all_energies'[state.iter_index + 1] = NodesEnergies(state.iter_index)
        /\ \A r \in 1..Len(all_energies) :
              r # state.iter_index + 1 => all_energies'[r] = all_energies[r]

\* C23: the energy history has one row per loop step: the step run at
\* iteration index i writes row i and no other, the learning loop goes on from
\* the index the inference loop stopped at, and the rows from iter_index on
\* are still zero.
C23_EnergyHistoryRows ==
    /\ [] C23_RowsOfStepsRun
    /\ [][C23_StepWritesItsRow]_vars

C23_Witness ==
    /\ program = "train_model" /\ params.pc_mode = "efficient_ppc"
    /\ pc = "w_loop" /\ params.T = MaxT
    /\ state.num_x_updates = 1 /\ state.num_w_updates = 1
    /\ all_energies[1] = NodesEnergies(0)
    /\ all_energies[2] = NodesEnergies(1)
    /\ all_energies[MaxT] = ZeroRow

C26_CacheClearedAroundStep ==
    /\ InLoop => ~model.u
    /\ LoopStep => model'.u = model.u

\* C26: the cached "u" parameters are absent whenever a loop body is entered
\* or left, in the inference and in the learning loop, so a loop step returns
\* the set of parameters it received.
C26_SameParametersInAndOut ==
    /\ [] (InLoop => ~model.u)
    /\ [][C26_CacheClearedAroundStep]_vars

C26_Witness ==
    /\ program = "train_model" /\ params.pc_mode = "pc"
    /\ pc = "w_loop" /\ batch_n = 2
    /\ state.iter_index >= 1
    /\ ~model.u

InSkipError == program = "run_experiment"

C25_PhasesOfBatch ==
    InSkipError =>
        /\ main_pc = "inference" =>
              /\ skip_error.optim_h = "ready"
              /\ skip_error.t <= params.T
              /\ optim_calls = [i \in 1..skip_error.t |-> {"h"}]
        /\ main_pc = "learning" =>
              /\ skip_error.optim_h = "none"
              /\ optim_calls = [i \in 1..params.T |-> {"h"}]
        /\ main_pc \in {"train", "break", "finished"} =>
              /\ skip_error.optim_h = "none"
              /\ batch_n > 0 =>
                    /\ optim_calls = SkipErrorCalls
                    /\ skip_error.t = params.T
                    /\ skip_error.scale_by = skip_error.x_shape0

C25_StepOnlyWithState ==
    (InSkipError /\ Len(optim_calls') > Len(optim_calls)
                 /\ optim_calls'[Len(optim_calls')] = {"h"})
        => skip_error.optim_h = "ready" /\ skip_error'.optim_h = "ready"

\* C25: a batch of skip_error.py is the init step with optim_h.init, exactly T
\* activity steps, optim_h.clear, then exactly one weight step scaled by
\* 1 / batch size; optim_h steps only while it holds state, and holds none
\* between batches.
C25_BatchIsInitInferenceClearLearn ==
    /\ [] C25_PhasesOfBatch
    /\ [][C25_StepOnlyWithState]_vars

C25_Witness ==
    /\ InSkipError /\ main_pc = "train" /\ batch_n = 2
    /\ params.T = MaxT
    /\ Len(optim_calls) = MaxT + 1
    /\ skip_error.x_shape0 = MaxBatchSize
    /\ skip_error.scale_by = MaxBatchSize
    /\ skip_error.optim_h = "none"

Alternating(n) == [k \in 1..n |-> IF (k - 1) % 2 = 0 THEN "X" ELSE "W"]

BranchCount(b) == Cardinality({k \in 1..Len(scan.ys) : scan.ys[k].branch = b})

\* C24: the scan of run_on_batch runs steps 0..7, the activity branch at the
\* even and the weight branch at the odd ones, every step on the state and
\* model the step before it produced, and stacks one output per step: four
\* activity and four weight updates when it returns.
C24_ScanAlternates ==
    program = "main" =>
        /\ scan.i <= 8
        /\ Len(scan.ys) = scan.i
        /\ scan.carry = Alternating(scan.i)
        /\ \A k \in 1..scan.i :
              /\ scan.ys[k].j = k - 1
              /\ scan.ys[k].branch = Alternating(8)[k]
              /\ scan.ys[k].received = Alternating(k - 1)
        /\ (main_pc = "train" /\ batch_n > 0) =>
              /\ scan.i = 8
              /\ BranchCount("X") = 4
              /\ BranchCount("W") = 4

C24_Witness ==
    /\ program = "main" /\ main_pc = "train" /\ batch_n = 2
    /\ Len(scan.ys) = 8
    /\ scan.ys[1].branch = "X"
    /\ scan.ys[8].branch = "W"
    /\ scan.ys[8].received = Alternating(7)

InExperiment == program = "run_training_experiment"

FoundResults == experiment.found = "results"

ResumedRun == experiment.do_hypertunning /\ experiment.hypertunning_resume_run

\* C29: run_training_experiment calls train_model on an empty results
\* directory only. Results found there are moved to the backup when a
\* hypertuning run is resumed, otherwise deleted when overwrite_results_dir is
\* set, otherwise the call raises with the directory and the backup as found
\* and no model constructed.
C29_TrainsIntoEmptyDir ==
    InExperiment =>
        /\ main_pc \in {"train_model", "training"} =>
              /\ experiment.results_dir = "empty"
              /\ experiment.model
        /\ main_pc = "runtime_error" =>
              /\ FoundResults
              /\ ~ResumedRun
              /\ ~experiment.overwrite_results_dir
              /\ experiment.results_dir = "results"
              /\ ~experiment.model
        /\ (FoundResults /\ main_pc # "results_dir") =>
              IF ResumedRun
              THEN main_pc # "runtime_error" /\ experiment.backup = "results"
              ELSE IF experiment.overwrite_results_dir
                   THEN main_pc # "runtime_error" /\ experiment.backup # "results"
                   ELSE main_pc = "runtime_error" /\ experiment.backup # "results"
        /\ ~FoundResults => main_pc # "runtime_error" /\ experiment.backup # "results"

C29_Witness ==
    /\ InExperiment /\ main_pc = "training"
    /\ FoundResults
    /\ experiment.do_hypertunning /\ experiment.hypertunning_resume_run
    /\ experiment.overwrite_results_dir
    /\ experiment.backup = "results"
    /\ experiment.results_dir = "empty"

C29_WitnessRaised ==
    /\ InExperiment /\ main_pc = "runtime_error"
    /\ experiment.do_hypertunning /\ ~experiment.hypertunning_resume_run

\* the epochs (counted from 1) whose test MSE is a number
NumberEpochs == {k \in 1..Len(metrics.test_mses) : metrics.test_mses[k].kind # "nan"}

\* no epoch in the set has a lower test MSE than epoch k
IsMinimumOf(k, epochs) ==
    \A l \in epochs : ~FLess(metrics.test_mses[l], metrics.test_mses[k])

\* the earliest of the epochs with the lowest test MSE
EarliestMinimum(epochs) ==
    CHOOSE k \in epochs :
        /\ IsMinimumOf(k, epochs)
        /\ \A l \in epochs : IsMinimumOf(l, epochs) => k <= l

SavesBest == program = "train_model" /\ params.save_best_results

\* the epochs with a finite test MSE
FiniteEpochs == {k \in NumberEpochs : IsFinite(metrics.test_mses[k])}

C28_BestOfFiniteEpochs ==
    SavesBest =>
        /\ Len(metrics.test_mses) = epoch
        /\ IF FiniteEpochs # {}
           THEN /\ metrics.best_epoch_dir = EarliestMinimum(FiniteEpochs)
                /\ metrics.best_test_mse =
                       metrics.test_mses[metrics.best_epoch_dir]
           ELSE /\ metrics.best_epoch_dir = 0
                /\ metrics.best_test_mse = PosInf

C28_EpochEndStep ==
    (SavesBest /\ epoch' = epoch + 1) =>
        LET mse == metrics'.test_mses[epoch']
        IN /\ metrics'.best_epoch_dir \in {metrics.best_epoch_dir, epoch'}
           /\ metrics'.best_epoch_dir # metrics.best_epoch_dir =>
                 \A l \in NumberEpochs : FLess(mse, metrics.test_mses[l])
           /\ mse = NaN => metrics' = [metrics EXCEPT !.test_mses = @ \o <<NaN>>]

\* C28 (amended): with save_best_results, after any completed epochs
\* best_test_mse is the least test MSE of these epochs, NaN left out, and +inf
\* when there is none; if some epoch had a finite test MSE the best link points
\* to the earliest epoch with the least one, otherwise there is no link. An
\* epoch moves the link only if its test MSE is below that of every earlier
\* epoch whose test MSE is a number, and an epoch with test MSE NaN changes
\* neither.
C28_BestIsEarliestFiniteMinimum ==
    /\ [] C28_BestOfFiniteEpochs
    /\ [][C28_EpochEndStep]_vars

C28_Witness ==
    /\ SavesBest /\ epoch = 2
    /\ metrics.test_mses = <<Fin(1), Fin(1)>>
    /\ metrics.best_epoch_dir = 1
    /\ metrics.best_test_mse = Fin(1)

\* C28 as stated: the best link points to the earliest epoch with the least
\* test MSE of the completed epochs, whatever that MSE is.
C28_Original ==
    (SavesBest /\ NumberEpochs # {}) =>
        /\ metrics.best_epoch_dir = EarliestMinimum(NumberEpochs)
        /\ metrics.best_test_mse = metrics.test_mses[metrics.best_epoch_dir]

\* a completed epoch of train_model left a test MSE that is not finite
DivergedEpoch ==
    \E k \in 1..Len(metrics.test_mses) : ~IsFinite(metrics.test_mses[k])

\* C21 as stated: once an epoch has ended with the model diverged, no training
\* batch of a later epoch is run.
C21_NoBatchAfterDivergedEpoch ==
    (program = "train_model" /\ main_pc = "in_batch") => ~DivergedEpoch

====
